---- MODULE Spec2Model ----
(***************************************************************************)
(* Connection / stream orchestration of the http2 package: Conn.ReadLoop,  *)
(* Conn.HandleSettings, Conn.WindowUpdate, Conn.WriteLoop and Conn.Close   *)
(* (conn.go), with the goroutines they talk to over unbuffered channels.   *)
(* Window fields are int32 and are computed with wrap-around, as Go does.  *)
(***************************************************************************)
EXTENDS Integers, Sequences, FiniteSets, TLC

\* ------------------------------------------------------------------ bounds
\* Frames ReadLoop reads when the settings exchange is explored.
MaxFrames == 4
\* Stream identifiers are 1..MaxStreamID.
MaxStreamID == 3
\* Frames ReadLoop reads when the goroutines' interleavings are explored.
MaxConcFrames == 3
\* Streams in use when the goroutines' interleavings are explored.
MaxConcStreams == 2
\* Frames the application sends through streams.
MaxSends == 2

\* ------------------------------------------------------- program constants
DEFAULT_WINDOW_SIZE == 65535
DEFAULT_MAX_CONCURRENT_STREAMS == 100
MAX_INITIAL_WINDOW_SIZE == 65535
MaxInt32 == 2147483647
MinInt32 == (-MaxInt32) - 1
UNSET == 0
ACK == 1
END_STREAM == 1
END_HEADERS == 4
\* A settings id the table does not hold; a request without a body.
Absent == -1
\* RecvResponse leaves its loop once its counter is above this (stream.go:78).
RECV_LIMIT == 50
\* Low-water marks the connection may be built with (Window.Threshold).
WINDOW_UPDATE_THRESHOLD == 16375
Thresholds == {WINDOW_UPDATE_THRESHOLD, 32768}

StreamIDs == 1..MaxStreamID
ConcStreams == 1..MaxConcStreams

\* ------------------------------------------------------ int32 / uint32
\* a + b on int32, wrapping modulo 2^32 as Go's += does.
Add32(a, b) ==
    IF b >= 0
    THEN IF a > MaxInt32 - b
         THEN ((a - MaxInt32) - 1) + ((b - MaxInt32) - 1)
         ELSE a + b
    ELSE IF a < MinInt32 - b
         THEN ((a + MaxInt32) + 1) + ((b + MaxInt32) + 1)
         ELSE a + b

\* a - b on int32, wrapping modulo 2^32 as Go's -= does.
Sub32(a, b) ==
    IF b = MinInt32 THEN Add32(Add32(a, MaxInt32), 1) ELSE Add32(a, -b)

\* uint32(x) of an int32 x, as the two 16-bit halves of the 32-bit pattern.
Uint32(x) ==
    IF x >= 0
    THEN [hi |-> x \div 65536, lo |-> x % 65536]
    ELSE LET y == (x + MaxInt32) + 1
         IN  [hi |-> 32768 + (y \div 65536), lo |-> y % 65536]

\* int32(u) of a uint32 u.
Int32(u) ==
    IF u.hi >= 32768 THEN (u.hi - 65536) * 65536 + u.lo ELSE u.hi * 65536 + u.lo

\* ------------------------------------------------------------- settings
\* A settings table: one field per SettingsID, Absent when the key is not held.
NilSettings == [iws |-> Absent, mcs |-> Absent]

DefaultSettingsInit ==
    [iws |-> DEFAULT_WINDOW_SIZE, mcs |-> DEFAULT_MAX_CONCURRENT_STREAMS]

\* ---------------------------------------------------------------- frames
NoInc == [hi |-> 0, lo |-> 0]

Frame(type, flags, sid, len, settings, inc) ==
    [type |-> type, flags |-> flags, sid |-> sid, len |-> len,
     settings |-> settings, inc |-> inc]

NoFrame == Frame("NONE", 0, 0, 0, NilSettings, NoInc)

\* NewSettingsFrame(flags, streamid, settings)
NewSettingsFrame(flags, sid, settings) ==
    Frame("SETTINGS", flags, sid, 0, settings, NoInc)

\* NewWindowUpdateFrame(streamid, increment)
NewWindowUpdateFrame(sid, inc) ==
    Frame("WINDOW_UPDATE", 0, sid, 4, NilSettings, inc)

DataFrame(flags, sid, len) == Frame("DATA", flags, sid, len, NilSettings, NoInc)

HeadersFrame(flags, sid) == Frame("HEADERS", flags, sid, 0, NilSettings, NoInc)

RstStreamFrame(sid) == Frame("RST_STREAM", 0, sid, 4, NilSettings, NoInc)

GoAwayFrame == Frame("GOAWAY", 0, 0, 8, NilSettings, NoInc)

\* ---------------------------------------------------------------- window
NewWindow(initial, threshold) ==
    [InitialSize |-> initial, CurrentSize |-> initial,
     PeerCurrentSize |-> initial, Threshold |-> threshold]

\* Rebase that adds the new initial size without taking the old one off.
RebaseKeepsOld(win, w) ==
    [win EXCEPT !.PeerCurrentSize = Add32(win.PeerCurrentSize, w),
                !.InitialSize = w]

\* conn.go:81-83 and 88-90: the window after a new initial window size w.
Rebase(win, w) ==
    [win EXCEPT !.PeerCurrentSize = Add32(Sub32(win.PeerCurrentSize, win.InitialSize), w),
                !.InitialSize = w]

\* conn.go:133: the window after a credit update of inc (a uint32).
CreditPeer(win, inc) ==
    [win EXCEPT !.PeerCurrentSize = Add32(win.PeerCurrentSize, Int32(inc))]

\* ---------------------------------------------------------------- stream
HasEndStream(f) == f.type \in {"DATA", "HEADERS"} /\ (f.flags % 2) = END_STREAM

\* Stream.ChangeState(frame, context): the next state and whether an error
\* is returned.  context is "RECV" or "SEND".
ChangeState(state, f, ctx) ==
    LET ok(s)  == [State |-> s, err |-> FALSE]
        bad    == [State |-> state, err |-> TRUE]
        mine   == IF ctx = "RECV" THEN "HALF_CLOSED_REMOTE" ELSE "HALF_CLOSED_LOCAL"
        theirs == IF ctx = "RECV" THEN "HALF_CLOSED_LOCAL" ELSE "HALF_CLOSED_REMOTE"
    IN  IF f.type = "RST_STREAM" THEN ok("CLOSED")
        ELSE IF f.type \notin {"HEADERS", "DATA", "WINDOW_UPDATE"} THEN bad
        ELSE IF state = "IDLE"
             THEN IF f.type = "HEADERS"
                  THEN IF HasEndStream(f) THEN ok(mine) ELSE ok("OPEN")
                  ELSE bad
        ELSE IF state = "OPEN"
             THEN IF HasEndStream(f) THEN ok(mine) ELSE ok("OPEN")
        ELSE IF state = theirs
             THEN IF HasEndStream(f) THEN ok("CLOSED") ELSE ok(state)
        ELSE IF state = mine
             THEN IF f.type = "WINDOW_UPDATE" THEN ok(state) ELSE bad
        ELSE bad


\* ----------------------------------------------------------------- state
VARIABLES
    DefaultSettings,  \* the package-level DefaultSettings table
    Settings,         \* conn.Settings: which table it refers to
    Window,           \* conn.Window
    Streams,          \* conn.Streams: "absent" (no key), "nil" or "ptr" per id
    heap,             \* the Stream objects, by id
    LastStreamID,     \* conn.LastStreamID
    wclosed,          \* conn.WriteChan is closed
    rpc,              \* where ReadLoop is
    rframe,           \* the frame ReadLoop is handling
    err,              \* ReadLoop's err after stream.ChangeState
    wpc,              \* where WriteLoop is
    wframe,           \* the frame WriteLoop took from conn.WriteChan
    written,          \* frames written to conn.RW, in order
    sending,          \* per stream: the frame its sender is blocked sending
    nsent,            \* frames the application has sent through streams
    ncloses,          \* calls of conn.Close so far
    panic,            \* "" or the runtime error that ended the process
    decoded,          \* history: frames ReadFrame returned, in order
    enqueued,         \* history: frames WriteLoop received from conn.WriteChan
    delivered,        \* history: per stream, frames its ReadChan handed over
    snap1,            \* history: the windows before the latest rebase
    snap2,            \* history: the windows before the rebase preceding it
    stream,           \* stream.go: the Stream, its request and RecvResponse's c
    sent,             \* frames stream.Send has written, in order
    rcvd              \* history: what stream.Recv has returned so far

conn == <<DefaultSettings, Settings, Window, Streams, heap, LastStreamID,
          wclosed, rpc, rframe, err, ncloses, panic>>
hist == <<decoded, enqueued, delivered, snap1, snap2>>
adapter == <<stream, sent, rcvd>>
vars == <<DefaultSettings, Settings, Window, Streams, heap, LastStreamID,
          wclosed, rpc, rframe, err, wpc, wframe, written, sending, nsent,
          ncloses, panic, decoded, enqueued, delivered, snap1, snap2,
          stream, sent, rcvd>>

\* conn.PeerSettings is the DefaultSettings table itself (NewConn, conn.go:34).
PeerSettings == DefaultSettings

\* The table conn.Settings refers to.
SettingsTable == IF Settings.ref = "DefaultSettings" THEN DefaultSettings ELSE Settings.tbl

\* NewStream(streamid, ...): a stream in IDLE with its own window and an open
\* ReadChan that its consumer goroutine is reading.
NewStream(peerSettings, threshold) ==
    [State |-> "IDLE", Window |-> NewWindow(peerSettings.iws, threshold),
     closed |-> FALSE, consumer |-> "recv"]

NoStream == NewStream(DefaultSettingsInit, 0)

NoSnap == [valid |-> FALSE, conn |-> NewWindow(0, 0),
           strs |-> [s \in StreamIDs |-> NewWindow(0, 0)],
           live |-> {}]

\* A request: its method and the length of its body, Absent without a body.
Request(method, body) == [Method |-> method, body |-> body]

NoRequest == Request("", Absent)

\* Nothing received: the frames read, whether one of them carried
\* END_STREAM, and whether a frame was read after that one.
NoneReceived == [n |-> 0, eos |-> FALSE, after |-> FALSE]

\* NewConn(rw), conn.go:29-40, with both loops started; the window's
\* threshold is one of thresholds.
InitWith(thresholds) ==
    /\ DefaultSettings = DefaultSettingsInit
    /\ Settings = [ref |-> "DefaultSettings", tbl |-> NilSettings]
    /\ \E t \in thresholds : Window = NewWindow(DEFAULT_WINDOW_SIZE, t)
    /\ Streams = [s \in StreamIDs |-> "absent"]
    /\ heap = [s \in StreamIDs |-> NoStream]
    /\ LastStreamID = 0
    /\ wclosed = FALSE
    /\ rpc = "read"
    /\ rframe = NoFrame
    /\ err = FALSE
    /\ wpc = "recv"
    /\ wframe = NoFrame
    /\ written = <<>>
    /\ sending = [s \in StreamIDs |-> NoFrame]
    /\ nsent = 0
    /\ ncloses = 0
    /\ panic = ""
    /\ decoded = <<>>
    /\ enqueued = <<>>
    /\ delivered = [s \in StreamIDs |-> <<>>]
    /\ snap1 = NoSnap
    /\ snap2 = NoSnap
    /\ stream = [Id |-> 0, req |-> NoRequest, pc |-> "idle", c |-> 0]
    /\ sent = <<>>
    /\ rcvd = NoneReceived

Init == InitWith(Thresholds)

InitConc == InitWith({WINDOW_UPDATE_THRESHOLD})

\* The fields ReadLoop and Close work on, as one value.
Cur ==
    [DefaultSettings |-> DefaultSettings, Settings |-> Settings, Window |-> Window,
     Streams |-> Streams, heap |-> heap, LastStreamID |-> LastStreamID,
     wclosed |-> wclosed, rpc |-> rpc, err |-> err, ncloses |-> ncloses,
     panic |-> panic]

Store(c) ==
    /\ DefaultSettings' = c.DefaultSettings
    /\ Settings' = c.Settings
    /\ Window' = c.Window
    /\ Streams' = c.Streams
    /\ heap' = c.heap
    /\ LastStreamID' = c.LastStreamID
    /\ wclosed' = c.wclosed
    /\ rpc' = c.rpc
    /\ err' = c.err
    /\ ncloses' = c.ncloses
    /\ panic' = c.panic

Panic(c, what) == [c EXCEPT !.panic = what, !.rpc = "panic"]

LiveStreams(c) == {s \in StreamIDs : c.Streams[s] = "ptr"}

\* ------------------------------------------------------------ Conn.Close
\* stream.Close(): the stream is CLOSED and its ReadChan is closed.
StreamClose(obj) == [obj EXCEPT !.State = "CLOSED", !.closed = TRUE]

\* Conn.Close, conn.go:237-247.  blocked: a goroutine is blocked sending on a
\* channel this call closes, which panics in that goroutine.
Close(c, blocked) ==
    LET c1 == [c EXCEPT !.heap = [s \in StreamIDs |->
                                     IF c.Streams[s] = "ptr"
                                     THEN StreamClose(c.heap[s]) ELSE c.heap[s]],
                        !.ncloses = IF @ < 2 THEN @ + 1 ELSE @]
    IN  IF c.wclosed THEN Panic(c1, "close of closed channel")
        ELSE IF blocked THEN Panic([c1 EXCEPT !.wclosed = TRUE], "send on closed channel")
        ELSE [c1 EXCEPT !.wclosed = TRUE]

\* ------------------------------------------------- stream part of ReadLoop
\* conn.go:151-182 up to the send on stream.ReadChan.
StreamStage(c, f) ==
    IF f.sid = 0 THEN [c EXCEPT !.rpc = "read"]
    ELSE IF c.Streams[f.sid] = "nil" THEN Panic(c, "nil pointer dereference")
    ELSE LET isNew == c.Streams[f.sid] = "absent"
             obj0  == IF isNew
                      THEN NewStream(c.DefaultSettings, c.Window.Threshold)
                      ELSE c.heap[f.sid]
             cs    == ChangeState(obj0.State, f, "RECV")
             c1    == [c EXCEPT !.heap[f.sid] = [obj0 EXCEPT !.State = cs.State],
                                !.Streams[f.sid] =
                                    IF cs.State = "CLOSED" THEN "nil" ELSE "ptr",
                                !.LastStreamID =
                                    IF isNew /\ f.sid > @ THEN f.sid ELSE @,
                                !.err = cs.err]
         IN  IF obj0.closed THEN Panic(c1, "send on closed channel")
             ELSE [c1 EXCEPT !.rpc = "deliver"]

\* ------------------------------------------------------ Conn.WindowUpdate
\* conn.go:204-207: the window is charged; below the threshold the call
\* blocks sending the credit update (conn.go:209).
WindowUpdate(c, length) ==
    LET size == Sub32(c.Window.CurrentSize, length)
        c1   == [c EXCEPT !.Window.CurrentSize = size]
    IN  IF size < c.Window.Threshold THEN [c1 EXCEPT !.rpc = "sendWU"] ELSE c1

\* conn.go:208: update := InitialSize - CurrentSize
Update(win) == Sub32(win.InitialSize, win.CurrentSize)

\* conn.go:210, after the credit update was handed to WriteLoop.
WindowUpdateEnd(c) ==
    [c EXCEPT !.Window.CurrentSize = Add32(@, Update(c.Window))]

\* ---------------------------------------------------- Conn.HandleSettings
\* conn.go:69-97 up to the send of the acknowledgment.  visited: the streams
\* the range over conn.Streams reached before it reached a nil entry.
ApplySettings(c, f, visited) ==
    LET c1 == [c EXCEPT !.Settings = [ref |-> "frame", tbl |-> f.settings]]
        w  == f.settings.iws
    IN  IF w = Absent THEN [c1 EXCEPT !.rpc = "sendAck"]
        ELSE IF w > MAX_INITIAL_WINDOW_SIZE THEN c1
        ELSE LET hasNil == \E s \in StreamIDs : c.Streams[s] = "nil"
                 todo   == IF hasNil THEN visited ELSE LiveStreams(c)
                 c2 == [c1 EXCEPT
                          !.Window = Rebase(@, w),
                          !.DefaultSettings.iws = w,
                          !.heap = [s \in StreamIDs |->
                              IF s \in todo
                              THEN [c.heap[s] EXCEPT !.Window = Rebase(@, w)]
                              ELSE c.heap[s]]]
             IN  IF hasNil THEN Panic(c2, "nil pointer dereference")
                 ELSE [c2 EXCEPT !.rpc = "sendAck"]

\* HandleSettings that returns early on the ACK flag alone.
HandleSettingsAckOnly(c, f, visited) ==
    IF f.flags = ACK THEN c ELSE ApplySettings(c, f, visited)

\* Conn.HandleSettings, conn.go:55-98: frames with the ACK flag and frames
\* with any other flag return before anything is applied.
HandleSettings(c, f, visited) ==
    IF f.flags = ACK THEN c
    ELSE IF f.flags # UNSET THEN c
    ELSE ApplySettings(c, f, visited)

\* ---------------------------------------------------------- Conn.ReadLoop
SenderBlocked == \E s \in StreamIDs : sending[s] # NoFrame

\* conn.go:126-183 for frame f, up to the next blocking send.
AfterSettings(c, f) ==
    LET c1 == IF f.sid = 0 /\ f.type = "WINDOW_UPDATE"
              THEN [c EXCEPT !.Window = CreditPeer(@, f.inc)] ELSE c
    IN  IF f.type = "GOAWAY"
        THEN LET c2 == Close(c1, SenderBlocked)
             IN  IF c2.panic # "" THEN c2 ELSE [c2 EXCEPT !.rpc = "done"]
        ELSE IF f.type = "DATA"
        THEN LET c2 == WindowUpdate(c1, f.len)
             IN  IF c2.rpc = "sendWU" THEN c2 ELSE StreamStage(c2, f)
        ELSE StreamStage(c1, f)

\* One frame from ReadFrame, conn.go:104-183, up to the first blocking send.
Handle(c, f, visited) ==
    IF f.type = "SETTINGS"
    THEN LET c1 == HandleSettings(c, f, visited)
         IN  IF c1.rpc = "read" THEN AfterSettings(c1, f) ELSE c1
    ELSE AfterSettings(c, f)

\* The frame ReadLoop is blocked sending on conn.WriteChan.
Outgoing ==
    IF rpc = "sendAck" THEN NewSettingsFrame(ACK, 0, NilSettings)
    ELSE NewWindowUpdateFrame(0, Uint32(Update(Window)))

\* The windows, as the rebase history keeps them.
Snapshot == [valid |-> TRUE, conn |-> Window,
             strs |-> [s \in StreamIDs |-> heap[s].Window],
             live |-> LiveStreams(Cur)]

IsRebase(f) ==
    /\ f.type = "SETTINGS" /\ f.flags = UNSET
    /\ f.settings.iws # Absent /\ f.settings.iws <= MAX_INITIAL_WINDOW_SIZE

IsCredit(f) == f.type = "WINDOW_UPDATE" /\ f.sid = 0

ReadFrame(F, max) ==
    /\ panic = "" /\ rpc = "read" /\ Len(decoded) < max
    /\ \E f \in F :
         /\ \E visited \in SUBSET LiveStreams(Cur) :
              Store(Handle(Cur, f, visited))
         /\ rframe' = f
         /\ decoded' = Append(decoded, f)
         /\ snap1' = IF IsRebase(f) THEN Snapshot
                     ELSE IF IsCredit(f) THEN NoSnap ELSE snap1
         /\ snap2' = IF IsRebase(f) THEN snap1
                     ELSE IF IsCredit(f) THEN NoSnap ELSE snap2
    /\ UNCHANGED <<wpc, wframe, written, sending, nsent, enqueued, delivered>>
    /\ UNCHANGED adapter

\* ReadFrame returns io.EOF: ReadLoop breaks (conn.go:106-109).
ReadEOF ==
    /\ panic = "" /\ rpc = "read"
    /\ rpc' = "eof"
    /\ UNCHANGED <<DefaultSettings, Settings, Window, Streams, heap, LastStreamID,
                   wclosed, rframe, err, ncloses, panic>>
    /\ UNCHANGED <<wpc, wframe, written, sending, nsent>>
    /\ UNCHANGED hist
    /\ UNCHANGED adapter

\* ReadFrame returns another error: Fatal ends the process (conn.go:110).
ReadError ==
    /\ panic = "" /\ rpc = "read"
    /\ rpc' = "panic" /\ panic' = "Fatal"
    /\ UNCHANGED <<DefaultSettings, Settings, Window, Streams, heap, LastStreamID,
                   wclosed, rframe, err, ncloses>>
    /\ UNCHANGED <<wpc, wframe, written, sending, nsent>>
    /\ UNCHANGED hist
    /\ UNCHANGED adapter

\* conn.WriteChan <- frame in ReadLoop (conn.go:97, 209) meets WriteLoop's
\* receive (conn.go:188); ReadLoop goes on to its next blocking point.
ReadLoopSend ==
    /\ panic = "" /\ rpc \in {"sendAck", "sendWU"}
    /\ ~wclosed /\ wpc = "recv"
    /\ wframe' = Outgoing
    /\ wpc' = "write"
    /\ enqueued' = Append(enqueued, Outgoing)
    /\ LET c == IF rpc = "sendWU" THEN WindowUpdateEnd(Cur) ELSE Cur
       IN  Store(StreamStage(c, rframe))
    /\ UNCHANGED <<rframe, written, sending, nsent, decoded, delivered, snap1, snap2>>
    /\ UNCHANGED adapter

\* conn.WriteChan <- frame in ReadLoop (conn.go:97, 209) when conn.Close has
\* closed the channel before: the send panics.
ReadLoopSendClosed ==
    /\ panic = "" /\ rpc \in {"sendAck", "sendWU"}
    /\ wclosed
    /\ panic' = "send on closed channel"
    /\ rpc' = "panic"
    /\ UNCHANGED <<DefaultSettings, Settings, Window, Streams, heap, LastStreamID,
                   wclosed, rframe, err, ncloses>>
    /\ UNCHANGED <<wpc, wframe, written, sending, nsent>>
    /\ UNCHANGED hist
    /\ UNCHANGED adapter

\* ReadLoop handing the frame to the stream it created last.
DeliverToLast ==
    /\ panic = "" /\ rpc = "deliver"
    /\ heap[LastStreamID].consumer = "recv" /\ ~heap[LastStreamID].closed
    /\ delivered' = [delivered EXCEPT ![LastStreamID] = Append(@, rframe)]
    /\ rpc' = "read"
    /\ UNCHANGED <<DefaultSettings, Settings, Window, Streams, heap, LastStreamID,
                   wclosed, rframe, err, ncloses, panic>>
    /\ UNCHANGED <<wpc, wframe, written, sending, nsent>>
    /\ UNCHANGED <<decoded, enqueued, snap1, snap2>>
    /\ UNCHANGED adapter

\* stream.ReadChan <- frame (conn.go:182) meets the stream consumer's receive.
Deliver ==
    /\ panic = "" /\ rpc = "deliver"
    /\ heap[rframe.sid].consumer = "recv" /\ ~heap[rframe.sid].closed
    /\ delivered' = [delivered EXCEPT ![rframe.sid] = Append(@, rframe)]
    /\ rpc' = "read"
    /\ UNCHANGED <<DefaultSettings, Settings, Window, Streams, heap, LastStreamID,
                   wclosed, rframe, err, ncloses, panic>>
    /\ UNCHANGED <<wpc, wframe, written, sending, nsent>>
    /\ UNCHANGED <<decoded, enqueued, snap1, snap2>>
    /\ UNCHANGED adapter

\* --------------------------------------------------------- Conn.WriteLoop
\* WriteLoop writing each frame without waiting for the one before it.
WriteFrameUnordered ==
    /\ panic = "" /\ wpc = "write"
    /\ written' = <<wframe>> \o written
    /\ wpc' = "recv"
    /\ UNCHANGED conn
    /\ UNCHANGED <<wframe, sending, nsent>>
    /\ UNCHANGED hist
    /\ UNCHANGED adapter

\* frame.Write(conn.RW) succeeds (conn.go:192) and the loop receives again.
WriteFrame ==
    /\ panic = "" /\ wpc = "write"
    /\ written' = Append(written, wframe)
    /\ wpc' = "recv"
    /\ UNCHANGED conn
    /\ UNCHANGED <<wframe, sending, nsent>>
    /\ UNCHANGED hist
    /\ UNCHANGED adapter

\* frame.Write(conn.RW) fails: WriteLoop returns the error (conn.go:193-196).
WriteFail ==
    /\ panic = "" /\ wpc = "write"
    /\ wpc' = "error"
    /\ UNCHANGED conn
    /\ UNCHANGED <<wframe, written, sending, nsent>>
    /\ UNCHANGED hist
    /\ UNCHANGED adapter

\* The range over conn.WriteChan ends once the channel is closed (conn.go:188).
WriteLoopEnd ==
    /\ panic = "" /\ wpc = "recv" /\ wclosed
    /\ wpc' = "done"
    /\ UNCHANGED conn
    /\ UNCHANGED <<wframe, written, sending, nsent>>
    /\ UNCHANGED hist
    /\ UNCHANGED adapter

\* --------------------------------------------------------- stream consumer
\* A consumer blocked on a closed ReadChan is released.
ConsumerEnd(s) ==
    /\ panic = "" /\ heap[s].closed /\ heap[s].consumer = "recv"
    /\ heap' = [heap EXCEPT ![s].consumer = "done"]
    /\ UNCHANGED <<DefaultSettings, Settings, Window, Streams, LastStreamID,
                   wclosed, rpc, rframe, err, ncloses, panic>>
    /\ UNCHANGED <<wpc, wframe, written, sending, nsent>>
    /\ UNCHANGED hist
    /\ UNCHANGED adapter

\* A consumer stops draining its stream's ReadChan and never reads again.
ConsumerStall(s) ==
    /\ panic = "" /\ Streams[s] # "absent" /\ heap[s].consumer = "recv"
    /\ heap' = [heap EXCEPT ![s].consumer = "stalled"]
    /\ UNCHANGED <<DefaultSettings, Settings, Window, Streams, LastStreamID,
                   wclosed, rpc, rframe, err, ncloses, panic>>
    /\ UNCHANGED <<wpc, wframe, written, sending, nsent>>
    /\ UNCHANGED hist
    /\ UNCHANGED adapter

\* ---------------------------------------------------------- stream sender
\* A stream's sender changes the stream's state for the frame and, unless
\* that is an error, blocks sending the frame on the shared conn.WriteChan.
StreamSend(F) ==
    /\ panic = "" /\ nsent < MaxSends
    /\ \E s \in StreamIDs, f \in F :
         /\ f.sid = s /\ Streams[s] # "absent" /\ sending[s] = NoFrame
         /\ LET cs == ChangeState(heap[s].State, f, "SEND")
            IN  /\ heap' = [heap EXCEPT ![s].State = cs.State]
                /\ sending' = [sending EXCEPT ![s] = IF cs.err THEN NoFrame ELSE f]
                /\ panic' = IF ~cs.err /\ wclosed THEN "send on closed channel" ELSE ""
    /\ nsent' = nsent + 1
    /\ UNCHANGED <<DefaultSettings, Settings, Window, Streams, LastStreamID,
                   wclosed, rpc, rframe, err, ncloses>>
    /\ UNCHANGED <<wpc, wframe, written>>
    /\ UNCHANGED hist
    /\ UNCHANGED adapter

\* The sender's conn.WriteChan <- frame meets WriteLoop's receive.
StreamSendDone(s) ==
    /\ panic = "" /\ sending[s] # NoFrame
    /\ ~wclosed /\ wpc = "recv"
    /\ wframe' = sending[s]
    /\ wpc' = "write"
    /\ enqueued' = Append(enqueued, sending[s])
    /\ sending' = [sending EXCEPT ![s] = NoFrame]
    /\ UNCHANGED conn
    /\ UNCHANGED <<written, nsent, decoded, delivered, snap1, snap2>>
    /\ UNCHANGED adapter

\* ------------------------------------------------------- application Close
\* The application calls conn.Close() while the loops may still run.
AppClose ==
    /\ panic = "" /\ ncloses < 2
    /\ LET blocked == \/ SenderBlocked
                      \/ rpc \in {"sendAck", "sendWU"}
                      \/ rpc = "deliver" /\ Streams[rframe.sid] = "ptr"
       IN  Store(Close(Cur, blocked))
    /\ UNCHANGED <<rframe, wpc, wframe, written, sending, nsent>>
    /\ UNCHANGED hist
    /\ UNCHANGED adapter

\* ------------------------------------------------------ Stream.SendRequest
\* uint16(n) of a length n >= 0.
Uint16(n) == n % 65536

\* The frames SendRequest hands to stream.Send, in order (stream.go:30-53),
\* and whether it returns: ioutil.ReadAll of a nil req.Body panics.
RequestFrames(req, id) ==
    IF req.Method = "GET"
    THEN [frames |-> <<HeadersFrame(END_STREAM + END_HEADERS, id)>>,
          returns |-> TRUE]
    ELSE IF req.Method = "POST"
    THEN IF req.body = Absent
         THEN [frames |-> <<HeadersFrame(END_HEADERS, id)>>, returns |-> FALSE]
         ELSE [frames |-> <<HeadersFrame(END_HEADERS, id),
                            DataFrame(0, id, Uint16(req.body)),
                            DataFrame(END_STREAM, id, 0)>>,
               returns |-> TRUE]
    ELSE [frames |-> <<>>, returns |-> TRUE]

\* stream.SendRequest(req) on a new stream; stream.Send writes each frame.
SendRequest(ids, methods, bodies) ==
    /\ stream.pc = "idle"
    /\ \E id \in ids, m \in methods, b \in bodies :
         LET req == Request(m, b)
             out == RequestFrames(req, id)
         IN  /\ stream' = [Id |-> id, req |-> req,
                           pc |-> IF out.returns THEN "sent" ELSE "panic",
                           c |-> 0]
             /\ sent' = out.frames
    /\ UNCHANGED <<conn, hist, wpc, wframe, written, sending, nsent, rcvd>>

\* ----------------------------------------------------- Stream.RecvResponse
\* stream.RecvResponse() is called: c := 0 (stream.go:56).
RecvResponse ==
    /\ stream.pc = "sent"
    /\ stream' = [stream EXCEPT !.pc = "recv", !.c = 0]
    /\ UNCHANGED <<conn, hist, wpc, wframe, written, sending, nsent, sent, rcvd>>

\* One turn of RecvResponse's loop (stream.go:60-82) with the frame f that
\* stream.Recv returns.
Recv(F) ==
    /\ stream.pc = "recv"
    /\ \E f \in F :
         /\ f.sid = stream.Id
         /\ rcvd' = [n |-> rcvd.n + 1,
                     eos |-> rcvd.eos \/ HasEndStream(f),
                     after |-> rcvd.after \/ rcvd.eos]
         /\ stream' = IF f.flags = 1 THEN [stream EXCEPT !.pc = "done"]
                      ELSE IF stream.c > RECV_LIMIT THEN [stream EXCEPT !.pc = "done"]
                      ELSE [stream EXCEPT !.c = @ + 1]
    /\ UNCHANGED <<conn, hist, wpc, wframe, written, sending, nsent, sent>>

\* ------------------------------------------------------- specifications
SettingsOf(w) == NewSettingsFrame(UNSET, 0, [iws |-> w, mcs |-> Absent])

\* Settings exchange and flow control: settings frames with a smaller, the
\* default and a too large initial window size, the largest credit update,
\* a DATA frame, and frames that open and reset streams.
SettingsFrames ==
    {SettingsOf(20000), SettingsOf(DEFAULT_WINDOW_SIZE), SettingsOf(70000),
     NewWindowUpdateFrame(0, Uint32(MaxInt32)),
     DataFrame(0, 1, 40000), RstStreamFrame(1)}
    \cup {HeadersFrame(END_HEADERS, s) : s \in StreamIDs}

NextSettings ==
    \/ ReadFrame(SettingsFrames, MaxFrames)
    \/ ReadLoopSend
    \/ Deliver
    \/ WriteFrame

SpecSettings == Init /\ [][NextSettings]_vars

\* A GOAWAY arriving while streams are open, an acknowledgment is in flight
\* and streams are sending.
GoAwayFrames ==
    {SettingsOf(20000), GoAwayFrame}
    \cup {HeadersFrame(END_HEADERS, s) : s \in ConcStreams}

SendFrames ==
    {HeadersFrame(END_HEADERS, s) : s \in ConcStreams}
    \cup {DataFrame(END_STREAM, s, 10) : s \in ConcStreams}

NextGoAway ==
    \/ ReadFrame(GoAwayFrames, MaxConcFrames)
    \/ ReadLoopSend
    \/ Deliver
    \/ WriteFrame
    \/ WriteLoopEnd
    \/ \E s \in ConcStreams : ConsumerEnd(s)
    \/ StreamSend(SendFrames)
    \/ \E s \in ConcStreams : StreamSendDone(s)

SpecGoAway == InitConc /\ [][NextGoAway]_vars

\* The same with the application calling conn.Close() itself.
NextClose ==
    \/ ReadFrame(GoAwayFrames, MaxConcFrames)
    \/ ReadLoopSend
    \/ ReadLoopSendClosed
    \/ Deliver
    \/ WriteFrame
    \/ WriteLoopEnd
    \/ \E s \in ConcStreams : ConsumerEnd(s)
    \/ AppClose

SpecClose == InitConc /\ [][NextClose]_vars

\* The outbound queue with all its senders: ReadLoop's acknowledgments and
\* credit updates, and the streams; writes to the transport may fail.
WriteFrames ==
    {SettingsOf(20000), DataFrame(0, 1, 50000)}
    \cup {HeadersFrame(END_HEADERS, s) : s \in ConcStreams}

WriteSends == {DataFrame(0, s, 10) : s \in ConcStreams}

NextWrite ==
    \/ ReadFrame(WriteFrames, MaxConcFrames)
    \/ ReadLoopSend
    \/ Deliver
    \/ WriteFrame
    \/ WriteFail
    \/ StreamSend(WriteSends)
    \/ \E s \in ConcStreams : StreamSendDone(s)

SpecWrite == InitConc /\ [][NextWrite]_vars

\* Frames of several streams, interleaved: opening, ending and resetting
\* them.
StreamFrames ==
    {HeadersFrame(END_HEADERS, s) : s \in ConcStreams}
    \cup {DataFrame(END_STREAM, s, 10) : s \in ConcStreams}
    \cup {RstStreamFrame(s) : s \in ConcStreams}

NextStreams ==
    \/ ReadFrame(StreamFrames, MaxConcFrames)
    \/ Deliver

SpecStreams == InitConc /\ [][NextStreams]_vars

\* The same while the streams send frames of their own.
NextStates ==
    \/ ReadFrame(StreamFrames, MaxConcFrames)
    \/ Deliver
    \/ WriteFrame
    \/ StreamSend(SendFrames)
    \/ \E s \in ConcStreams : StreamSendDone(s)

SpecStates == InitConc /\ [][NextStates]_vars

\* The transport ending or failing under ReadLoop, and failing under WriteLoop.
FatalFrames ==
    {SettingsOf(20000)} \cup {HeadersFrame(END_HEADERS, s) : s \in ConcStreams}

NextFatal ==
    \/ ReadFrame(FatalFrames, MaxConcFrames)
    \/ ReadEOF
    \/ ReadError
    \/ ReadLoopSend
    \/ Deliver
    \/ WriteFrame
    \/ WriteFail

SpecFatal == InitConc /\ [][NextFatal]_vars

\* Settings frames with flags: the ACK flag, an unknown flag and both, each
\* carrying parameters, next to a settings frame that is applied.
FlaggedSettings(flags) ==
    NewSettingsFrame(flags, 0, [iws |-> 30000, mcs |-> 50])

FlagFrames ==
    {SettingsOf(20000), FlaggedSettings(ACK), FlaggedSettings(2),
     FlaggedSettings(ACK + 2), HeadersFrame(END_HEADERS, 1),
     DataFrame(0, 1, 40000)}

NextFlags ==
    \/ ReadFrame(FlagFrames, MaxFrames)
    \/ ReadLoopSend
    \/ Deliver
    \/ WriteFrame

SpecFlags == Init /\ [][NextFlags]_vars

\* Connection-level credit: DATA frames on stream 0, on an open and on a
\* reset stream, between settings frames that lower the initial window size.
CreditFrames ==
    {SettingsOf(10000), SettingsOf(20000),
     DataFrame(0, 0, 30000), DataFrame(0, 1, 20000),
     HeadersFrame(END_HEADERS, 1), RstStreamFrame(1)}

NextCredit ==
    \/ ReadFrame(CreditFrames, MaxFrames)
    \/ ReadLoopSend
    \/ Deliver
    \/ WriteFrame

SpecCredit == Init /\ [][NextCredit]_vars

\* Frames of several streams while some consumers stop draining.
StallFrames ==
    {HeadersFrame(END_HEADERS, s) : s \in ConcStreams}
    \cup {DataFrame(0, s, 10) : s \in ConcStreams}

NextStall ==
    \/ ReadFrame(StallFrames, MaxConcFrames)
    \/ Deliver
    \/ \E s \in ConcStreams : ConsumerStall(s)

SpecStall == InitConc /\ [][NextStall]_vars

\* The request / response adapters of a stream: requests of several methods
\* with and without a body, and responses made of HEADERS and DATA frames.
Methods == {"GET", "POST", "PUT", "DELETE"}

Bodies == {Absent, 10, 70000}

ResponseFrames ==
    UNION {{HeadersFrame(END_HEADERS, s), HeadersFrame(END_STREAM + END_HEADERS, s),
            DataFrame(0, s, 10), DataFrame(END_STREAM, s, 0)} : s \in StreamIDs}

NextAdapter ==
    \/ SendRequest(StreamIDs, Methods, Bodies)
    \/ RecvResponse
    \/ Recv(ResponseFrames)

SpecAdapter == InitConc /\ [][NextAdapter]_vars

\* ------------------------------------------------------------- properties
\* c = a + b holds in the integers (no int32 wrap-around took place).
ExactSum(a, b, c) ==
    /\ IF b >= 0 THEN a <= MaxInt32 - b ELSE a >= MinInt32 - b
    /\ c = a + b

\* ReadLoop takes frame rframe' from the transport in this step.
Reads == rpc = "read" /\ decoded' # decoded

IsOversize(f) ==
    /\ f.type = "SETTINGS" /\ f.flags = UNSET
    /\ f.settings.iws > MAX_INITIAL_WINDOW_SIZE

AckFrame == NewSettingsFrame(ACK, 0, NilSettings)

\* C1: a non-ACK settings frame with initial window size w <= 65535 moves
\* PeerCurrentSize of the connection window and of every stream in the table
\* by exactly w - InitialSize, sets InitialSize to w, and leaves ReadLoop
\* handing exactly one acknowledgment (ACK, stream 0, no parameters) to the
\* outbound queue.
C1_RebaseAndAck ==
    [][ (Reads /\ IsRebase(rframe'))
        => LET w == rframe'.settings.iws
           IN  /\ ExactSum(Window.PeerCurrentSize, w - Window.InitialSize,
                           Window'.PeerCurrentSize)
               /\ Window'.InitialSize = w
               /\ \A s \in StreamIDs : Streams[s] = "ptr" =>
                    /\ ExactSum(heap[s].Window.PeerCurrentSize,
                                w - heap[s].Window.InitialSize,
                                heap'[s].Window.PeerCurrentSize)
                    /\ heap'[s].Window.InitialSize = w
               /\ panic' = ""
               /\ rpc' = "sendAck"
               /\ Outgoing' = AckFrame ]_vars

\* C2: a non-ACK settings frame with an initial window size above 65535 is
\* not applied: Settings, PeerSettings, the connection window and every
\* stream window are as before, and no acknowledgment is handed to the
\* outbound queue.
C2_OversizeNotApplied ==
    [][ (Reads /\ IsOversize(rframe'))
        => /\ SettingsTable' = SettingsTable
           /\ PeerSettings' = PeerSettings
           /\ Window' = Window
           /\ \A s \in StreamIDs : heap'[s].Window = heap[s].Window
           /\ rpc' # "sendAck" ]_vars

\* Every settings frame decoded so far is valid (initial size in 0..65535).
OnlyValidSettings ==
    \A i \in 1..Len(decoded) : ~IsOversize(decoded[i])

\* C3: after any DATA, connection credit-update and valid settings frames,
\* CurrentSize and PeerCurrentSize of the connection window and of every
\* live stream's window are >= 0.
C3_WindowsNeverNegative ==
    OnlyValidSettings =>
        /\ Window.CurrentSize >= 0
        /\ Window.PeerCurrentSize >= 0
        /\ \A s \in StreamIDs : Streams[s] = "ptr" =>
             /\ heap[s].Window.CurrentSize >= 0
             /\ heap[s].Window.PeerCurrentSize >= 0

GoAwayHandled ==
    Len(decoded) > 0 /\ decoded[Len(decoded)].type = "GOAWAY"

\* C5: once ReadLoop has handled a GOAWAY, ReadLoop has stopped, every open
\* stream is CLOSED with its inbound queue closed, the outbound queue is
\* closed with no sender left holding a frame for it, and when WriteLoop has
\* ended every frame handed to the queue has been written.
C5_GoAwayClosesAfterDrain ==
    GoAwayHandled =>
        /\ panic = ""
        /\ rpc = "done"
        /\ \A s \in StreamIDs : Streams[s] = "ptr" =>
             heap[s].State = "CLOSED" /\ heap[s].closed
        /\ wclosed
        /\ ~SenderBlocked
        /\ wpc = "done" => written = enqueued

\* C10: a second call of conn.Close does not fail and leaves the connection
\* as the first call left it; a call that closes the outbound queue has closed
\* every stream of the table before.
C10_CloseIdempotent ==
    [][ (ncloses' > ncloses)
        => /\ ncloses >= 1 =>
                /\ panic' = ""
                /\ wclosed' = wclosed /\ heap' = heap /\ Streams' = Streams
           /\ (wclosed' /\ ~wclosed) =>
                \A s \in StreamIDs : Streams'[s] = "ptr" => heap'[s].closed ]_vars

\* A transport error ended one of the loops and the process is still there.
FatalError == panic = "" /\ (wpc = "error" \/ rpc = "eof")

\* C9: after a transport error ended ReadLoop or WriteLoop, no stream consumer
\* stays blocked on its inbound queue and no task stays blocked sending on the
\* outbound queue: when nothing more can happen, none of them is blocked.
C9_NoTaskBlockedForever ==
    (FatalError /\ ~ENABLED NextFatal) =>
        /\ \A s \in StreamIDs : Streams[s] # "absent" => heap[s].consumer # "recv"
        /\ rpc \notin {"sendAck", "sendWU"}

IsPrefix(a, b) == Len(a) <= Len(b) /\ SubSeq(b, 1, Len(a)) = a

\* C6: the frames written to the transport are always a prefix of the frames
\* handed to the outbound queue, in that order: at most the one frame
\* WriteLoop holds is not written yet, and none when it waits for the next.
C6_WrittenInEnqueueOrder ==
    /\ IsPrefix(written, enqueued)
    /\ Len(enqueued) <= Len(written) + 1
    /\ wpc = "recv" => written = enqueued

\* C6 witness: an acknowledgment, a credit update and a stream's frame were
\* all written, three enqueuers sharing the queue.
C6_Witness ==
    /\ \E i \in 1..Len(written) : written[i].type = "SETTINGS"
    /\ \E i \in 1..Len(written) : written[i].type = "WINDOW_UPDATE"
    /\ \E i \in 1..Len(written) : written[i].type = "DATA"
    /\ Len(written) >= 3

\* The frames of stream s among the decoded ones, in order.
DecodedFor(s) == SelectSeq(decoded, LAMBDA f : f.sid = s)

\* C7: what stream s's inbound queue has handed over is always a prefix of
\* the frames decoded for s, in the order decoded, lacking at most the frame
\* ReadLoop is delivering; every frame in it carries identifier s.
C7_DeliveredInDecodeOrder ==
    \A s \in StreamIDs :
        /\ IsPrefix(delivered[s], DecodedFor(s))
        /\ Len(DecodedFor(s)) <= Len(delivered[s]) + 1
        /\ (panic = "" /\ rpc = "read") => delivered[s] = DecodedFor(s)

\* C7 witness: frames of two streams were decoded interleaved (1, 2, 1) and
\* all three were delivered.
C7_Witness ==
    /\ Len(delivered[1]) >= 2 /\ Len(delivered[2]) >= 1
    /\ Len(decoded) >= 3
    /\ decoded[1].sid = 1 /\ decoded[2].sid = 2 /\ decoded[3].sid = 1

\* The stream state table: the state after frame f in state st, received
\* (ctx = "RECV") or sent (ctx = "SEND").
TableNext(st, f, ctx) ==
    LET eos    == HasEndStream(f)
        closes == IF ctx = "RECV" THEN "HALF_CLOSED_REMOTE" ELSE "HALF_CLOSED_LOCAL"
        closed == IF ctx = "RECV" THEN "HALF_CLOSED_LOCAL" ELSE "HALF_CLOSED_REMOTE"
    IN  IF f.type = "RST_STREAM" THEN "CLOSED"
        ELSE IF st = "IDLE" /\ f.type = "HEADERS" THEN (IF eos THEN closes ELSE "OPEN")
        ELSE IF st = "OPEN" /\ eos THEN closes
        ELSE IF st = closed /\ eos THEN "CLOSED"
        ELSE st

\* The frames the table allows in state st.
TableAllows(st, f, ctx) ==
    LET ended == IF ctx = "RECV" THEN "HALF_CLOSED_REMOTE" ELSE "HALF_CLOSED_LOCAL"
    IN  \/ f.type = "RST_STREAM"
        \/ st = "IDLE" /\ f.type = "HEADERS"
        \/ st = "OPEN" /\ f.type \in {"HEADERS", "DATA", "WINDOW_UPDATE"}
        \/ st \in {"HALF_CLOSED_LOCAL", "HALF_CLOSED_REMOTE"} /\ st # ended
             /\ f.type \in {"HEADERS", "DATA", "WINDOW_UPDATE"}
        \/ st = ended /\ f.type = "WINDOW_UPDATE"

\* C8: every frame received or sent on a stream moves its state as the table
\* says; a frame the table does not allow in the current state changes no
\* state and is reported to ReadLoop as an error.
C8_StateTable ==
    [][ \A s \in StreamIDs :
          /\ (Reads /\ rframe'.sid = s /\ rpc' \in {"deliver", "panic"}) =>
               /\ panic' = ""
               /\ heap'[s].State = TableNext(heap[s].State, rframe', "RECV")
               /\ err' = ~TableAllows(heap[s].State, rframe', "RECV")
               /\ ~TableAllows(heap[s].State, rframe', "RECV")
                    => heap'[s].State = heap[s].State
          /\ (nsent' > nsent /\ sending'[s] # sending[s]) =>
               /\ TableAllows(heap[s].State, sending'[s], "SEND")
               /\ heap'[s].State = TableNext(heap[s].State, sending'[s], "SEND")
          /\ (nsent' > nsent /\ sending'[s] = sending[s]) =>
               heap'[s].State = heap[s].State ]_vars

\* The same for the streams that are still in the table or new.
StateTableWhileInTable ==
    [][ \A s \in StreamIDs :
          /\ (Reads /\ rframe'.sid = s /\ Streams[s] # "nil") =>
               /\ panic' = ""
               /\ heap'[s].State = TableNext(heap[s].State, rframe', "RECV")
               /\ err' = ~TableAllows(heap[s].State, rframe', "RECV")
               /\ ~TableAllows(heap[s].State, rframe', "RECV")
                    => heap'[s].State = heap[s].State
          /\ (nsent' > nsent /\ sending'[s] # sending[s]) =>
               /\ TableAllows(heap[s].State, sending'[s], "SEND")
               /\ heap'[s].State = TableNext(heap[s].State, sending'[s], "SEND")
          /\ (nsent' > nsent /\ sending'[s] = sending[s]) =>
               heap'[s].State = heap[s].State ]_vars

\* C11: a frame received for a stream that has reached CLOSED changes no
\* stream's state, is not handed to an inbound queue, and leaves ReadLoop
\* reading the frames that follow.
C11_ClosedAcceptsNothing ==
    [][ \A s \in StreamIDs :
          (Reads /\ rframe'.sid = s /\ Streams[s] # "absent"
                 /\ heap[s].State = "CLOSED")
          => /\ panic' = ""
             /\ \A t \in StreamIDs : heap'[t].State = heap[t].State
             /\ rpc' = "read" ]_vars

\* A settings frame HandleSettings applies: no flags, and an initial window
\* size that is absent or valid.
IsApplied(f) ==
    /\ f.type = "SETTINGS" /\ f.flags = UNSET
    /\ f.settings.iws <= MAX_INITIAL_WINDOW_SIZE

\* C12: a settings frame that is applied leaves PeerSettings equal to the
\* frame's parameter set and the locally announced Settings as they were.
C12_PeerSettingsReplaced ==
    [][ (Reads /\ IsApplied(rframe') /\ \A s \in StreamIDs : Streams[s] # "nil")
        => /\ PeerSettings' = rframe'.settings
           /\ SettingsTable' = SettingsTable ]_vars

\* The tables NewConn gives a connection created now (conn.go:33-34).
NewConnTables == [Settings |-> DefaultSettings, PeerSettings |-> DefaultSettings]

\* C18: whatever settings frames this connection has applied, the package
\* level default table is unchanged and a connection created now starts from
\* the defaults (initial window size 65535, 100 concurrent streams).
C18_DefaultsUntouched ==
    /\ DefaultSettings = DefaultSettingsInit
    /\ NewConnTables.Settings = DefaultSettingsInit
    /\ NewConnTables.PeerSettings = DefaultSettingsInit

\* C19: no goroutine sends on conn.WriteChan after conn.Close has closed it.
C19_NoSendAfterClose ==
    panic # "send on closed channel"

\* C13: a settings frame with the ACK flag or with any other flag leaves
\* Settings, PeerSettings, the connection window and every stream window as
\* they were, and ReadLoop goes on reading without handing anything to the
\* outbound queue.
C13_FlaggedSettingsIgnored ==
    [][ (Reads /\ rframe'.type = "SETTINGS" /\ rframe'.flags # UNSET)
        => /\ SettingsTable' = SettingsTable
           /\ PeerSettings' = PeerSettings
           /\ Window' = Window
           /\ \A s \in StreamIDs : heap'[s].Window = heap[s].Window
           /\ rpc' = "read"
           /\ panic' = "" ]_vars

\* C13 witness: after a settings frame was applied and with a stream open, a
\* settings frame with an unknown flag and other parameters was handled.
C13_Witness ==
    /\ panic = "" /\ rpc = "read"
    /\ Len(decoded) >= 3
    /\ decoded[Len(decoded)].type = "SETTINGS"
    /\ decoded[Len(decoded)].flags \notin {UNSET, ACK}
    /\ decoded[Len(decoded)].settings.iws # Window.InitialSize
    /\ Window.InitialSize = 20000
    /\ Streams[1] = "ptr"

\* The uint32 u is the number n.
IsNumber(u, n) == u.hi < 32768 /\ u.hi * 65536 + u.lo = n

\* ReadLoop hands its credit update to the outbound queue in this step.
EnqueuesUpdate == rpc = "sendWU" /\ enqueued' # enqueued

\* C14: a DATA frame of length n, on any stream, leaves CurrentSize at
\* r = CurrentSize - n when r >= Threshold, with nothing to enqueue; when
\* r < Threshold, a stream-0 credit update for exactly InitialSize - r is
\* enqueued and CurrentSize becomes InitialSize.  No other frame changes
\* CurrentSize.
C14_DataConsumesCredit ==
    [][ /\ (Reads /\ rframe'.type = "DATA") =>
             LET r == Window.CurrentSize - rframe'.len
             IN  /\ Window'.CurrentSize = r
                 /\ IF r < Window.Threshold
                    THEN /\ rpc' = "sendWU"
                         /\ Outgoing'.type = "WINDOW_UPDATE" /\ Outgoing'.sid = 0
                         /\ IsNumber(Outgoing'.inc, Window.InitialSize - r)
                    ELSE rpc' # "sendWU"
        /\ EnqueuesUpdate =>
             /\ enqueued' = Append(enqueued, Outgoing)
             /\ Window'.CurrentSize = Window.InitialSize
        /\ (Reads /\ rframe'.type # "DATA") =>
             Window'.CurrentSize = Window.CurrentSize
        /\ (~Reads /\ ~EnqueuesUpdate) =>
             Window'.CurrentSize = Window.CurrentSize ]_vars

\* The same when the credit to give back is not negative.
CreditWhenNotNegative ==
    [][ /\ (Reads /\ rframe'.type = "DATA") =>
             LET r == Window.CurrentSize - rframe'.len
             IN  /\ Window'.CurrentSize = r
                 /\ IF r < Window.Threshold
                    THEN /\ rpc' = "sendWU"
                         /\ Outgoing'.type = "WINDOW_UPDATE" /\ Outgoing'.sid = 0
                         /\ Window.InitialSize >= r
                              => IsNumber(Outgoing'.inc, Window.InitialSize - r)
                    ELSE rpc' # "sendWU"
        /\ EnqueuesUpdate =>
             /\ enqueued' = Append(enqueued, Outgoing)
             /\ Window'.CurrentSize = Window.InitialSize
        /\ (Reads /\ rframe'.type # "DATA") =>
             Window'.CurrentSize = Window.CurrentSize
        /\ (~Reads /\ ~EnqueuesUpdate) =>
             Window'.CurrentSize = Window.CurrentSize ]_vars

\* C20: every credit update Conn.WindowUpdate enqueues is for stream 0 with
\* an increment in 1..2^31-1, and once it is enqueued
\* Threshold <= CurrentSize = InitialSize.
C20_UpdateIncrementPositive ==
    [][ (EnqueuesUpdate /\ OnlyValidSettings) =>
          LET f == enqueued'[Len(enqueued')]
          IN  /\ f.type = "WINDOW_UPDATE" /\ f.sid = 0
              /\ f.inc.hi < 32768 /\ f.inc # NoInc
              /\ Window'.CurrentSize = Window'.InitialSize
              /\ Window'.Threshold <= Window'.CurrentSize ]_vars

\* C15: a stream whose consumer does not drain its inbound queue does not
\* keep frames from the other streams: when nothing more can happen, ReadLoop
\* has taken every frame from the transport and every stream whose consumer
\* is reading has been handed all the frames decoded for it.
C15_NoHeadOfLineBlocking ==
    (panic = "" /\ ~ENABLED NextStall) =>
        /\ Len(decoded) = MaxConcFrames
        /\ \A s \in ConcStreams :
             heap[s].consumer = "recv" => delivered[s] = DecodedFor(s)

\* The frames of seq that carry END_STREAM.
EndStreamAt(seq) == {i \in 1..Len(seq) : HasEndStream(seq[i])}

\* C16: RecvResponse stops at the first frame that carries END_STREAM,
\* whatever else the frame carries, and reads no frame after it; it never
\* reads more than RECV_LIMIT + 2 frames.
C16_StopsAtEndStream ==
    /\ rcvd.eos => stream.pc = "done"
    /\ ~rcvd.after
    /\ rcvd.n <= RECV_LIMIT + 2

\* RecvResponse always ends within RECV_LIMIT + 2 frames.
RecvBounded ==
    /\ rcvd.n <= RECV_LIMIT + 2
    /\ (stream.pc = "recv" => rcvd.n <= RECV_LIMIT + 1)

\* C17: once SendRequest has been called, a request without a body has
\* emitted exactly one HEADERS frame with END_STREAM and END_HEADERS; a
\* request with a body has emitted HEADERS with END_HEADERS only, then DATA
\* frames without END_STREAM that carry the body, then a DATA frame of length
\* 0 with END_STREAM; all on the stream's identifier, with END_STREAM on the
\* last frame and on no other.
C17_RequestFrames ==
    stream.pc # "idle" =>
        /\ \A i \in 1..Len(sent) : sent[i].sid = stream.Id
        /\ EndStreamAt(sent) = {Len(sent)} /\ Len(sent) >= 1
        /\ IF stream.req.body = Absent
           THEN sent = <<HeadersFrame(END_STREAM + END_HEADERS, stream.Id)>>
           ELSE /\ Len(sent) >= 3
                /\ sent[1] = HeadersFrame(END_HEADERS, stream.Id)
                /\ \A i \in 2..(Len(sent) - 1) :
                     sent[i].type = "DATA" /\ sent[i].flags = 0
                /\ Len(sent) = 3 => sent[2].len = stream.req.body
                /\ sent[Len(sent)] = DataFrame(END_STREAM, stream.Id, 0)

\* The same for GET without a body and POST with a body that fits a frame.
RequestFramesGetPost ==
    (/\ stream.pc # "idle"
     /\ \/ stream.req.Method = "GET" /\ stream.req.body = Absent
        \/ stream.req.Method = "POST" /\ stream.req.body \in 0..65535)
    => /\ \A i \in 1..Len(sent) : sent[i].sid = stream.Id
       /\ EndStreamAt(sent) = {Len(sent)} /\ Len(sent) >= 1
       /\ IF stream.req.body = Absent
          THEN sent = <<HeadersFrame(END_STREAM + END_HEADERS, stream.Id)>>
          ELSE /\ Len(sent) = 3
               /\ sent[1] = HeadersFrame(END_HEADERS, stream.Id)
               /\ sent[2] = DataFrame(0, stream.Id, stream.req.body)
               /\ sent[3] = DataFrame(END_STREAM, stream.Id, 0)

====
